---- MODULE Spec2Model ----
(***************************************************************************)
(* A model of the retrieval-and-generation pipeline of the RAG backend:    *)
(*   - RAGService.chunk_text (app/services/rag_service.py)                 *)
(*   - the chat routes, synchronous and streamed (app/api/routes/chat.py)  *)
(*   - re-indexing: the admin route and the indexing script                *)
(*     (app/api/routes/admin.py, scripts/index_book.py)                    *)
(*                                                                         *)
(* A text is represented by its word sequence text.split(); a word is      *)
(* identified by its position, so a text of n words is the number n and a  *)
(* chunk " ".join(words[lo:hi]) is the pair <<lo, hi>> of word positions.  *)
(* Words produced by split() are non-empty and hold no whitespace, so a    *)
(* chunk is blank exactly when its slice is empty.                         *)
(***************************************************************************)
EXTENDS Integers, Sequences, FiniteSets, TLC

VARIABLES
    ct_args,        \* chunk_text: the call's arguments [n, chunk_size, overlap]
    ct_ret,         \* chunk_text: what the call produced, NoReturn before it
    disk,           \* the docs tree: file -> content, NoFile where there is none
    collection,     \* TRUE when the collection "book_chunks" exists in the store
    vector_size,    \* the vector size the collection was created with, 0 without it
    points,         \* the collection's points: point id -> [vector, payload]
    now,            \* the clock read by datetime.utcnow()
    rx,             \* the re-index run: loop position, counters, what it attempted
    response,       \* the response of the re-index route, NoResponse before it
    history,        \* doc_id -> the last two successful index_document calls
    req,            \* the chat request being served, NoRequest before it arrives
    chat,           \* the chat handler: its position, what it retrieved, how it failed
    events,         \* the events chat_stream's generator has yielded, in order
    chat_response,  \* the HTTP response of the synchronous chat route
    workers,        \* the concurrent re-index runs: position, files, failed calls
    collections,    \* QdrantIntegration.collections: name -> [size, vectors]
    skill_ret,      \* the last call on QdrantIntegration and what it returned
    skill_calls,    \* the number of calls made on QdrantIntegration
    qdrant_env,     \* TRUE when QDRANT_URL and QDRANT_API_KEY are both set
    chat_qdrant,    \* the in-memory store of the chat routes' RAGService
    chat_seen,      \* the last retrieval of the chat routes' RAGService
    agent_chunk     \* RAGEngineerAgent.chunk_text: its arguments and loop variables

chunkVars == <<ct_args, ct_ret>>
indexVars == <<disk, collection, vector_size, points, now, rx, response, history>>
chatVars == <<req, chat, events, chat_response>>
skillVars == <<collections, skill_ret, skill_calls>>
serviceVars == <<qdrant_env, chat_qdrant, chat_seen>>
vars == <<ct_args, ct_ret, disk, collection, vector_size, points, now, rx, response,
          history, req, chat, events, chat_response, workers, collections, skill_ret,
          skill_calls, qdrant_env, chat_qdrant, chat_seen, agent_chunk>>

----------------------------------------------------------------------------
(* Bounds of the model *)

MaxWords == 8
MaxChunkSize == 5

----------------------------------------------------------------------------
(* Helpers *)

Min(a, b) == IF a <= b THEN a ELSE b
Max(a, b) == IF a >= b THEN a ELSE b

\* ceil(a / b) for b > 0
CeilDiv(a, b) == IF a <= 0 THEN 0 ELSE ((a + b - 1) \div b)

----------------------------------------------------------------------------
(* RAGService.chunk_text *)

NoReturn == [kind |-> "none", chunks |-> << >>]

\* range(start, stop, step) for step # 0, as the for loop walks it
RECURSIVE PyRange(_, _, _)
PyRange(start, stop, step) ==
    IF (step > 0 /\ start < stop) \/ (step < 0 /\ start > stop)
    THEN <<start>> \o PyRange(start + step, stop, step)
    ELSE << >>

\* a slice bound of a list of n items: negative bounds count from the end
PyIndex(n, x) == IF x < 0 THEN Max(x + n, 0) ELSE Min(x, n)

\* words[a:b] of a list of n words, as the positions <<lo, hi>> it holds
PySlice(n, a, b) == <<PyIndex(n, a), PyIndex(n, b)>>

\* len(chunk.strip()) > 0
NonBlank(chunk) == chunk[1] < chunk[2]

\* the loop of chunk_text over the start positions, keeping the non-blank chunks
ChunkLoop(n, chunk_size, starts) ==
    SelectSeq([k \in 1..Len(starts) |-> PySlice(n, starts[k], starts[k] + chunk_size)],
              NonBlank)

\* the same loop with the range stopped overlap words early
chunk_text_short_range(n, chunk_size, overlap) ==
    IF chunk_size - overlap = 0
    THEN [kind |-> "ValueError", chunks |-> << >>]
    ELSE [kind |-> "ok",
          chunks |-> ChunkLoop(n, chunk_size, PyRange(0, n - overlap, chunk_size - overlap))]

\* the same loop stepping by chunk_size + overlap
chunk_text_step_plus_overlap(n, chunk_size, overlap) ==
    IF chunk_size - overlap = 0
    THEN [kind |-> "ValueError", chunks |-> << >>]
    ELSE [kind |-> "ok",
          chunks |-> ChunkLoop(n, chunk_size, PyRange(0, n, chunk_size + overlap))]

\* chunk_text(text, chunk_size, overlap) for a text of n words: range() raises
\* ValueError on a zero step, before the first iteration
chunk_text(n, chunk_size, overlap) ==
    IF chunk_size - overlap = 0
    THEN [kind |-> "ValueError", chunks |-> << >>]
    ELSE [kind |-> "ok",
          chunks |-> ChunkLoop(n, chunk_size, PyRange(0, n, chunk_size - overlap))]

ChunkArgs ==
    [n : 0..MaxWords, chunk_size : 1..MaxChunkSize, overlap : 0..(MaxChunkSize + 1)]

CallChunkText ==
    /\ ct_ret = NoReturn
    /\ ct_ret' = chunk_text(ct_args.n, ct_args.chunk_size, ct_args.overlap)
    /\ UNCHANGED ct_args
    /\ UNCHANGED indexVars
    /\ UNCHANGED chatVars
    /\ UNCHANGED workers
    /\ UNCHANGED skillVars
    /\ UNCHANGED serviceVars
    /\ UNCHANGED agent_chunk

----------------------------------------------------------------------------
(* RAGEngineerAgent.chunk_text (subagents/RAGEngineer): the while loop *)

MaxAgentChunks == 10

NoAgentChunk ==
    [pc |-> "idle", n |-> 0, chunk_size |-> 1, overlap |-> 0, start |-> 0, chunk_id |-> 0,
     chunks |-> << >>]

\* one evaluation of the loop condition: the body appends words[start:end] and
\* moves start, or the loop ends and chunks is returned
AgentChunkStep ==
    /\ agent_chunk.pc = "loop"
    /\ IF agent_chunk.start < agent_chunk.n
       THEN /\ agent_chunk.chunk_id < MaxAgentChunks
            /\ LET end == Min(agent_chunk.start + agent_chunk.chunk_size, agent_chunk.n)
               IN  agent_chunk' =
                     [agent_chunk EXCEPT
                         !.chunks = Append(@, PySlice(agent_chunk.n, agent_chunk.start, end)),
                         !.chunk_id = @ + 1,
                         !.start = IF end < agent_chunk.n THEN end - agent_chunk.overlap
                                   ELSE end]
       ELSE agent_chunk' = [agent_chunk EXCEPT !.pc = "returned"]
    /\ UNCHANGED indexVars
    /\ UNCHANGED chunkVars
    /\ UNCHANGED chatVars
    /\ UNCHANGED workers
    /\ UNCHANGED skillVars
    /\ UNCHANGED serviceVars

----------------------------------------------------------------------------
(* The docs tree and the metadata derived from a file's path *)

\* a markdown file is its path below the docs directory, the last part being
\* the file name without ".md"
F_intro == <<"intro">>
F_ch1 == <<"chapter-1", "overview">>
F_ch2 == <<"chapter-2", "overview">>
Files == {F_intro, F_ch1, F_ch2}

\* the order in which rglob("*.md") yields the files
FileOrder == <<F_intro, F_ch1, F_ch2>>

\* a file's content: its number of words and len(content.strip())
NoFile == [words |-> 0 - 1, chars |-> 0 - 1]
Contents ==
    { [words |-> 0, chars |-> 0],
      [words |-> 150, chars |-> 900],
      [words |-> 900, chars |-> 5400] }

\* the docs tree the runs start from: "intro" of 150 words and an overview of
\* 900 words in chapter-1
ScenarioTree ==
    [f \in Files |->
        CASE f = F_intro -> [words |-> 150, chars |-> 900]
          [] f = F_ch1 -> [words |-> 900, chars |-> 5400]
          [] OTHER -> NoFile]

\* md_file.stem
Stem(f) == f[Len(f)]

\* s.replace('-', ' ').title() on the names of the docs tree
TitleCase(s) ==
    CASE s = "intro" -> "Intro"
      [] s = "overview" -> "Overview"
      [] s = "chapter-1" -> "Chapter 1"
      [] s = "chapter-2" -> "Chapter 2"
      [] OTHER -> s

\* "chapter" in part.lower()
ContainsChapter(part) == part \in {"chapter-1", "chapter-2"}

\* the scan of md_file.parts for the first part holding "chapter"
RECURSIVE ChapterFrom(_, _)
ChapterFrom(parts, k) ==
    IF k > Len(parts) THEN "Introduction"
    ELSE IF ContainsChapter(parts[k]) THEN TitleCase(parts[k])
    ELSE ChapterFrom(parts, k + 1)

Chapter(f) == ChapterFrom(f, 1)

\* md_file.name
FileName(f) == <<Stem(f), ".md">>

\* doc_id = md_file.stem
DocId(f) == Stem(f)
DocIds == {DocId(f) : f \in Files}

\* Path(book_docs_path).rglob("*.md"): the files present, in rglob order
Discover(d) == SelectSeq(FileOrder, LAMBDA f : d[f] # NoFile)

----------------------------------------------------------------------------
(* RAGService.index_document and the vector store *)

DefaultChunkSize == 500
DefaultOverlap == 100

\* f"{doc_id}_chunk_{i}": the pair determines the string and the string the pair
\* (i is written in digits, so the last "_chunk_" splits it)
PointIdFresh(doc_id, i) == <<doc_id, i, now>>
PointIdFromOne(doc_id, i) == <<doc_id, i + 1>>
PointId(doc_id, i) == <<doc_id, i>>

\* chapter or "Main"
ChapterOrMain(chapter) == IF chapter = "" THEN "Main" ELSE chapter

\* an upsert that keeps only the points it is given
UpsertOnlyNew(stored, new) == new

\* qdrant.upsert: insert or replace, keyed by point id
Upsert(stored, new) ==
    [id \in (DOMAIN stored) \cup (DOMAIN new) |->
        IF id \in DOMAIN new THEN new[id] ELSE stored[id]]

\* the points index_document builds from the chunks of a document
BuildPoints(doc_id, title, f, content, url, chapter) ==
    LET chunks == chunk_text(content.words, DefaultChunkSize, DefaultOverlap).chunks
        text(i) == [file |-> f, words |-> content.words, span |-> chunks[i + 1]]
        \* the PointStruct of enumerate(chunks)'s pair (i, chunk)
        PointStruct(i) ==
            [vector |-> text(i),
             payload |-> [text |-> text(i),
                          doc_id |-> doc_id,
                          title |-> title,
                          url |-> url,
                          chapter |-> ChapterOrMain(chapter),
                          chunk_index |-> i,
                          indexed_at |-> now]]
        indexes == 0..(Len(chunks) - 1)
    IN  [id \in {PointId(doc_id, i) : i \in indexes} |->
            PointStruct(CHOOSE i \in indexes : PointId(doc_id, i) = id)]

\* self.embedding_dimension, and the dimension of a collection made for
\* text-embedding-3-large
embedding_dimension == 1536
LargeDimension == 3072

\* the collection's vector size after a call that leaves the collection existing
\* or not: ensure_collection_exists creates it with embedding_dimension when
\* get_collection found none, and never touches one that is there
SizeAfter(exists_after) ==
    IF exists_after /\ ~collection THEN embedding_dimension ELSE vector_size

\* where a call of index_document ends: it returns, or one of its remote calls
\* raises (create_collection, embeddings.create, upsert)
IndexOutcomes == {"ok", "ensure_error", "embed_error", "upsert_error"}

\* index_document with the upsert inside the loop over the chunks: a failed
\* embedding of the last chunk leaves the points of the chunks before it
index_document_upsert_in_loop(doc_id, title, f, content, url, chapter, outcome) ==
    LET chunks == chunk_text(content.words, DefaultChunkSize, DefaultOverlap).chunks
        new == BuildPoints(doc_id, title, f, content, url, chapter)
        before == [id \in {x \in DOMAIN new : x[2] < Len(chunks) - 1} |-> new[id]]
    IN  CASE outcome = "ensure_error" ->
                [raised |-> TRUE, collection |-> collection, points |-> points,
                 ret |-> 0, ids |-> {}]
          [] outcome = "embed_error" ->
                [raised |-> TRUE, collection |-> TRUE, points |-> Upsert(points, before),
                 ret |-> 0, ids |-> {}]
          [] outcome = "upsert_error" ->
                [raised |-> TRUE, collection |-> TRUE, points |-> points,
                 ret |-> 0, ids |-> {}]
          [] OTHER ->
                [raised |-> FALSE, collection |-> TRUE, points |-> Upsert(points, new),
                 ret |-> Len(chunks), ids |-> DOMAIN new]

\* index_document(doc_id, title, content, url, chapter) on the current store:
\* what it raises or returns, and the store it leaves
index_document(doc_id, title, f, content, url, chapter, outcome) ==
    LET chunks == chunk_text(content.words, DefaultChunkSize, DefaultOverlap).chunks
        new == BuildPoints(doc_id, title, f, content, url, chapter)
    IN  CASE outcome = "ensure_error" ->
                [raised |-> TRUE, collection |-> collection, points |-> points,
                 ret |-> 0, ids |-> {}]
          [] outcome \in {"embed_error", "upsert_error"} ->
                [raised |-> TRUE, collection |-> TRUE, points |-> points,
                 ret |-> 0, ids |-> {}]
          [] OTHER ->
                [raised |-> FALSE, collection |-> TRUE, points |-> Upsert(points, new),
                 ret |-> Len(chunks), ids |-> DOMAIN new]

\* the outcomes a call can have: an embedding call is made per chunk
PossibleOutcomes(content) ==
    IF content.words = 0 THEN IndexOutcomes \ {"embed_error"} ELSE IndexOutcomes

\* the points stored under a doc_id
PointsOf(stored, doc_id) == {id \in DOMAIN stored : stored[id].payload.doc_id = doc_id}

\* the record kept of a successful index_document call
Push2(h, e) == IF Len(h) < 2 THEN Append(h, e) ELSE <<h[2], e>>
Remember(doc_id, f, content, res) ==
    [history EXCEPT ![doc_id] =
        Push2(@, [file |-> f, content |-> content, ids |-> res.ids, ret |-> res.ret,
                  stored |-> Cardinality(PointsOf(res.points, doc_id))])]

----------------------------------------------------------------------------
(* Re-indexing: reindex_content (admin route) and index_book_content (script) *)

MaxClock == 3
MinContentChars == 100

NoResponse ==
    [code |-> 0, status |-> "none", message |-> << >>, indexed_count |-> 0,
     failed_count |-> 0, details |-> << >>]

NoRun ==
    [kind |-> "none", background |-> FALSE, pc |-> "idle", files |-> << >>, pos |-> 1,
     total_chunks |-> 0, indexed_files |-> << >>, attempted |-> << >>, failed |-> {},
     skipped |-> {}, outcome |-> "none"]

\* a file of the docs tree is written, replaced or removed between two runs;
\* time passes
EditFile ==
    /\ rx.pc \in {"idle", "done", "aborted", "rejected"}
    /\ now < MaxClock
    /\ \E f \in Files, c \in Contents \cup {NoFile} :
        /\ disk[f] # c
        /\ disk' = [disk EXCEPT ![f] = c]
    /\ now' = now + 1
    /\ UNCHANGED <<collection, vector_size, points, rx, response, history>>
    /\ UNCHANGED chunkVars
    /\ UNCHANGED workers
    /\ UNCHANGED skillVars
    /\ UNCHANGED serviceVars
    /\ UNCHANGED agent_chunk
    /\ UNCHANGED chatVars

\* the except clause of the loop body: the error is printed and the loop goes on
\* to the next file
OnErrorAbort(run, f) ==
    [run EXCEPT !.pc = "aborted", !.attempted = Append(@, f), !.failed = @ \cup {f}]
OnError(run, f) ==
    [run EXCEPT !.pos = @ + 1, !.attempted = Append(@, f), !.failed = @ \cup {f}]

\* the except clause of reindex_content: every Exception raised in the try
\* body, the HTTPException of the path check included, becomes a 500
ReindexExcept(exc) ==
    [NoResponse EXCEPT !.code = 500, !.status = "error", !.message = <<exc>>]

\* reindex_content up to the loop: the docs path is checked, then the response
\* of a background request is returned at once and perform_indexing runs after it
AdminReindexStart ==
    /\ rx.pc \in {"idle", "done", "aborted", "rejected"}
    /\ now < MaxClock
    /\ \E background \in BOOLEAN, path_exists \in BOOLEAN :
        IF ~path_exists
        THEN \* the HTTPException(404) is raised inside the try
             /\ rx' = [NoRun EXCEPT !.kind = "admin", !.background = background,
                                    !.pc = "rejected", !.outcome = "path_not_found"]
             /\ response' = ReindexExcept("404: Documentation path not found")
        ELSE /\ rx' = [NoRun EXCEPT !.kind = "admin", !.background = background,
                                    !.pc = "loop", !.files = Discover(disk)]
             /\ response' = IF background
                            THEN [code |-> 200, status |-> "started",
                                  message |-> <<"started">>, indexed_count |-> 0,
                                  failed_count |-> 0, details |-> << >>]
                            ELSE NoResponse
    /\ now' = now + 1
    /\ UNCHANGED <<disk, collection, vector_size, points, history>>
    /\ UNCHANGED chunkVars
    /\ UNCHANGED workers
    /\ UNCHANGED skillVars
    /\ UNCHANGED serviceVars
    /\ UNCHANGED agent_chunk
    /\ UNCHANGED chatVars

\* one iteration of perform_indexing's loop: read the file, derive its metadata,
\* index it, count it; any exception is caught and the loop continues
AdminReindexStep ==
    /\ rx.kind = "admin" /\ rx.pc = "loop" /\ rx.pos <= Len(rx.files)
    /\ LET f == rx.files[rx.pos]
           content == disk[f]
       IN  \/ \* open() or read() raises
              /\ rx' = [OnError(rx, f) EXCEPT !.outcome = "read_error"]
              /\ UNCHANGED <<collection, vector_size, points, history>>
           \/ \E outcome \in PossibleOutcomes(content) :
                LET res == index_document(DocId(f), TitleCase(Stem(f)), f, content, f,
                                          Chapter(f), outcome)
                IN  /\ collection' = res.collection
                    /\ vector_size' = SizeAfter(res.collection)
                    /\ points' = res.points
                    /\ IF res.raised
                       THEN /\ rx' = [OnError(rx, f) EXCEPT !.outcome = outcome]
                            /\ UNCHANGED history
                       ELSE /\ rx' = [rx EXCEPT
                                        !.pos = @ + 1,
                                        !.outcome = outcome,
                                        !.attempted = Append(@, f),
                                        !.total_chunks = @ + res.ret,
                                        !.indexed_files =
                                            Append(@, [file |-> FileName(f), chunks |-> res.ret])]
                            /\ history' = Remember(DocId(f), f, content, res)
    /\ UNCHANGED <<disk, now, response>>
    /\ UNCHANGED chunkVars
    /\ UNCHANGED workers
    /\ UNCHANGED skillVars
    /\ UNCHANGED serviceVars
    /\ UNCHANGED agent_chunk
    /\ UNCHANGED chatVars

\* the ReindexResponse of a foreground request, built from what the loop returned
CompletedResponse(total_chunks, indexed_files) ==
    [code |-> 200,
     status |-> "completed",
     message |-> <<"indexed", Len(indexed_files), total_chunks>>,
     indexed_count |-> Len(indexed_files),
     failed_count |-> 0,
     details |-> indexed_files]

\* the loop is over: perform_indexing returns and a foreground request answers
AdminReindexFinish ==
    /\ rx.kind = "admin" /\ rx.pc = "loop" /\ rx.pos > Len(rx.files)
    /\ rx' = [rx EXCEPT !.pc = "done"]
    /\ response' = IF rx.background THEN response
                   ELSE CompletedResponse(rx.total_chunks, rx.indexed_files)
    /\ UNCHANGED <<disk, collection, vector_size, points, now, history>>
    /\ UNCHANGED chunkVars
    /\ UNCHANGED workers
    /\ UNCHANGED skillVars
    /\ UNCHANGED serviceVars
    /\ UNCHANGED agent_chunk
    /\ UNCHANGED chatVars

\* index_book_content up to the loop: ensure_collection_exists is called outside
\* any try, so its failure ends the script
ScriptStart ==
    /\ rx.pc \in {"idle", "done", "aborted", "rejected"}
    /\ now < MaxClock
    /\ \/ /\ rx' = [NoRun EXCEPT !.kind = "script", !.pc = "aborted", !.indexed_files = 0]
          /\ UNCHANGED <<collection, vector_size>>
       \/ /\ rx' = [NoRun EXCEPT !.kind = "script", !.pc = "loop",
                                 !.files = Discover(disk), !.indexed_files = 0]
          /\ collection' = TRUE
          /\ vector_size' = SizeAfter(TRUE)
    /\ now' = now + 1
    /\ response' = NoResponse
    /\ UNCHANGED <<disk, points, history>>
    /\ UNCHANGED chunkVars
    /\ UNCHANGED workers
    /\ UNCHANGED skillVars
    /\ UNCHANGED serviceVars
    /\ UNCHANGED agent_chunk
    /\ UNCHANGED chatVars

\* one iteration of the script's loop: files shorter than MinContentChars are
\* skipped, the others indexed; any exception is caught and the loop continues
ScriptStep ==
    /\ rx.kind = "script" /\ rx.pc = "loop" /\ rx.pos <= Len(rx.files)
    /\ LET f == rx.files[rx.pos]
           content == disk[f]
       IN  \/ \* open() or read() raises
              /\ rx' = [OnError(rx, f) EXCEPT !.outcome = "read_error"]
              /\ UNCHANGED <<collection, vector_size, points, history>>
           \/ /\ content.chars < MinContentChars
              /\ rx' = [rx EXCEPT !.pos = @ + 1, !.attempted = Append(@, f),
                                  !.skipped = @ \cup {f}, !.outcome = "skipped"]
              /\ UNCHANGED <<collection, vector_size, points, history>>
           \/ /\ content.chars >= MinContentChars
              /\ \E outcome \in PossibleOutcomes(content) :
                    LET res == index_document(DocId(f), TitleCase(Stem(f)), f, content, f,
                                              Chapter(f), outcome)
                    IN  /\ collection' = res.collection
                        /\ vector_size' = SizeAfter(res.collection)
                        /\ points' = res.points
                        /\ IF res.raised
                           THEN /\ rx' = [OnError(rx, f) EXCEPT !.outcome = outcome]
                                /\ UNCHANGED history
                           ELSE /\ rx' = [rx EXCEPT
                                            !.pos = @ + 1,
                                            !.outcome = outcome,
                                            !.attempted = Append(@, f),
                                            !.total_chunks = @ + res.ret,
                                            !.indexed_files = @ + 1]
                                /\ history' = Remember(DocId(f), f, content, res)
    /\ UNCHANGED <<disk, now, response>>
    /\ UNCHANGED chunkVars
    /\ UNCHANGED workers
    /\ UNCHANGED skillVars
    /\ UNCHANGED serviceVars
    /\ UNCHANGED agent_chunk
    /\ UNCHANGED chatVars

\* the loop is over: the script prints its summary
ScriptFinish ==
    /\ rx.kind = "script" /\ rx.pc = "loop" /\ rx.pos > Len(rx.files)
    /\ rx' = [rx EXCEPT !.pc = "done"]
    /\ UNCHANGED <<disk, collection, vector_size, points, now, response, history>>
    /\ UNCHANGED chunkVars
    /\ UNCHANGED workers
    /\ UNCHANGED skillVars
    /\ UNCHANGED serviceVars
    /\ UNCHANGED agent_chunk
    /\ UNCHANGED chatVars

----------------------------------------------------------------------------
(* Two re-index runs at once on one store: ensure_collection_exists and
   index_document step by step, each remote call a step of its own *)

Runs == {"A", "B"}

NoWorker == [pc |-> "idle", files |-> << >>, pos |-> 1, failures |-> {}]
NoWorkers == [w \in Runs |-> NoWorker]

\* the loop of perform_indexing moves to the next file, or ends
NextFile(wr) ==
    [wr EXCEPT !.pos = @ + 1,
               !.pc = IF wr.pos + 1 > Len(wr.files) THEN "done" ELSE "get_collection"]

\* the except clause of the loop: the failure of the call is printed and the loop
\* continues with the next file
Continue(wr, call) == NextFile([wr EXCEPT !.failures = @ \cup {call}])

\* the points index_document builds for the file a run is at
PointsAt(wr) ==
    LET f == wr.files[wr.pos]
    IN  BuildPoints(DocId(f), TitleCase(Stem(f)), f, disk[f], f, Chapter(f))

\* a run starts: it discovers the files
WorkerStart(w) ==
    /\ workers[w].pc = "idle"
    /\ LET files == Discover(disk)
       IN  workers' = [workers EXCEPT
                          ![w] = [@ EXCEPT !.files = files,
                                           !.pc = IF files = << >> THEN "done"
                                                  ELSE "get_collection"]]
    /\ UNCHANGED indexVars
    /\ UNCHANGED chunkVars
    /\ UNCHANGED chatVars
    /\ UNCHANGED skillVars
    /\ UNCHANGED serviceVars
    /\ UNCHANGED agent_chunk

\* ensure_collection_exists, the try: get_collection returns when the collection
\* is there and raises when it is not, which takes the call to the except clause
GetCollection(w) ==
    /\ workers[w].pc = "get_collection"
    /\ workers' = [workers EXCEPT
                      ![w].pc = IF collection THEN "embed" ELSE "create_collection"]
    /\ UNCHANGED indexVars
    /\ UNCHANGED chunkVars
    /\ UNCHANGED chatVars
    /\ UNCHANGED skillVars
    /\ UNCHANGED serviceVars
    /\ UNCHANGED agent_chunk

\* ensure_collection_exists, the except clause: create_collection makes the
\* collection with embedding_dimension, or is refused by the store when the
\* collection exists by now, an error that leaves index_document
CreateCollection(w) ==
    /\ workers[w].pc = "create_collection"
    /\ IF collection
       THEN /\ workers' = [workers EXCEPT ![w] = Continue(@, "create_collection")]
            /\ UNCHANGED <<collection, vector_size>>
       ELSE /\ workers' = [workers EXCEPT ![w].pc = "embed"]
            /\ collection' = TRUE
            /\ vector_size' = embedding_dimension
    /\ UNCHANGED <<disk, points, now, rx, response, history>>
    /\ UNCHANGED chunkVars
    /\ UNCHANGED chatVars
    /\ UNCHANGED skillVars
    /\ UNCHANGED serviceVars
    /\ UNCHANGED agent_chunk

\* index_document, the loop over the chunks: create_embedding for each, any of
\* which may raise
Embed(w) ==
    /\ workers[w].pc = "embed"
    /\ \/ workers' = [workers EXCEPT ![w].pc = "upsert"]
       \/ /\ disk[workers[w].files[workers[w].pos]].words > 0
          /\ workers' = [workers EXCEPT ![w] = Continue(@, "embeddings")]
    /\ UNCHANGED indexVars
    /\ UNCHANGED chunkVars
    /\ UNCHANGED chatVars
    /\ UNCHANGED skillVars
    /\ UNCHANGED serviceVars
    /\ UNCHANGED agent_chunk

\* index_document, qdrant.upsert of the document's points, which may raise
UpsertPoints(w) ==
    /\ workers[w].pc = "upsert"
    /\ \/ /\ points' = Upsert(points, PointsAt(workers[w]))
          /\ workers' = [workers EXCEPT ![w] = NextFile(@)]
       \/ /\ workers' = [workers EXCEPT ![w] = Continue(@, "upsert")]
          /\ UNCHANGED points
    /\ UNCHANGED <<disk, collection, vector_size, now, rx, response, history>>
    /\ UNCHANGED chunkVars
    /\ UNCHANGED chatVars
    /\ UNCHANGED skillVars
    /\ UNCHANGED serviceVars
    /\ UNCHANGED agent_chunk

----------------------------------------------------------------------------
(* RAGService.search_similar *)

MaxTopK == 2

\* similarity scores in hundredths; score_threshold defaults to 0.5
Scores == {40, 70, 90}
ScoreThreshold == 50

\* an Optional[str]: None, or the string supplied
None == << >>
Some(v) == <<v>>

\* the chapter_filter of a request (ChatRequest puts no constraint on the string)
ChapterFilters == {None, Some(""), Some("Chapter 1"), Some("Appendix")}

\* Python's truth value of an Optional[str]: None and "" are false
Truthy(opt) == opt # None /\ opt[1] # ""

\* the query_filter search_similar builds: a match on chapter under
\* "if chapter_filter:", else None
search_filter(chapter_filter) == IF Truthy(chapter_filter) THEN chapter_filter ELSE None

SeqRange(r) == {r[k] : k \in DOMAIN r}

\* the points that pass the score threshold and the query filter, if there is one
Candidates(stored, score, threshold, query_filter) ==
    {id \in DOMAIN stored :
        /\ score[id] >= threshold
        /\ (query_filter # None => stored[id].payload.chapter = query_filter[1])}

\* qdrant.search: the limit best candidates by descending score, ties in any order
QdrantSearch(stored, score, limit, threshold, query_filter) ==
    LET C == Candidates(stored, score, threshold, query_filter)
        n == Min(limit, Cardinality(C))
    IN  {r \in [1..n -> C] :
            /\ \A i, j \in 1..n : i < j => (r[i] # r[j] /\ score[r[i]] >= score[r[j]])
            /\ \A id \in C \ SeqRange(r) : \A k \in 1..n : score[id] <= score[r[k]]}

\* the formatting loop of search_similar
FormatResults(stored, score, hits) ==
    [k \in 1..Len(hits) |->
        [text |-> stored[hits[k]].payload.text,
         title |-> stored[hits[k]].payload.title,
         url |-> stored[hits[k]].payload.url,
         chapter |-> stored[hits[k]].payload.chapter,
         score |-> score[hits[k]],
         chunk_index |-> stored[hits[k]].payload.chunk_index]]

\* create_embedding with a retry after a failed call
create_embedding_retry(ok) == [raised |-> ~ok, calls |-> IF ok THEN 1 ELSE 2]

\* create_embedding(text): one embeddings.create call, whose failure propagates
create_embedding(ok) == [raised |-> ~ok, calls |-> 1]

\* search_similar(query, limit, chapter_filter) on the current store: it raises
\* (in ensure_collection_exists, or later in the embedding or the search, once
\* the collection is there) or returns the formatted results; embeddings
\* counts the embeddings.create calls it issued
SearchSimilarOn(exists, stored, limit, chapter_filter) ==
    {[raised |-> TRUE, collection |-> exists, results |-> << >>, embeddings |-> 0],
     [raised |-> TRUE, collection |-> TRUE, results |-> << >>,
      embeddings |-> create_embedding(FALSE).calls],
     [raised |-> TRUE, collection |-> TRUE, results |-> << >>,
      embeddings |-> create_embedding(TRUE).calls]}
    \cup
    {[raised |-> FALSE, collection |-> TRUE, results |-> FormatResults(stored, score, hits),
      embeddings |-> create_embedding(TRUE).calls] :
        <<score, hits>> \in
            {<<sc, r>> \in [DOMAIN stored -> Scores] \X UNION {[1..n -> DOMAIN stored] : n \in 0..limit} :
                r \in QdrantSearch(stored, sc, limit, ScoreThreshold,
                                  search_filter(chapter_filter))}}

\* search_similar of a RAGService whose client is the configured store
search_similar(limit, chapter_filter) ==
    SearchSimilarOn(collection, points, limit, chapter_filter)

----------------------------------------------------------------------------
(* The two RAGService instances: admin.py and chat.py each construct their own,
   and RAGService.__init__ gives each its own QdrantClient *)

\* a QdrantClient(":memory:") as constructed: no collection
NoStore == [collection |-> FALSE, points |-> << >>]

NoRetrieval ==
    [done |-> FALSE, raised |-> FALSE, indexed |-> {}, searched |-> {}, results |-> {}]

\* the store behind the client of the chat routes' RAGService: the server at
\* QDRANT_URL when the environment names one, which is also the admin routes'
\* store, else the instance's own in-memory store
ChatStore ==
    IF qdrant_env THEN [collection |-> collection, points |-> points] ELSE chat_qdrant

\* a retrieval of the chat routes: search_similar on the chat instance's client;
\* a foreground re-index holds the event loop until it has answered
ServiceChat ==
    /\ rx.pc = "loop" => rx.background
    /\ \E limit \in 1..MaxTopK :
        \E found \in SearchSimilarOn(ChatStore.collection, ChatStore.points, limit, None) :
            /\ chat_seen' = [done |-> TRUE, raised |-> found.raised,
                             indexed |-> DOMAIN points,
                             searched |-> DOMAIN ChatStore.points,
                             results |-> {found.results[k].text : k \in 1..Len(found.results)}]
            /\ IF qdrant_env
               THEN /\ collection' = found.collection
                    /\ vector_size' = SizeAfter(found.collection)
                    /\ UNCHANGED chat_qdrant
               ELSE /\ chat_qdrant' = [chat_qdrant EXCEPT !.collection = found.collection]
                    /\ UNCHANGED <<collection, vector_size>>
    /\ UNCHANGED <<disk, points, now, rx, response, history, qdrant_env>>
    /\ UNCHANGED chunkVars
    /\ UNCHANGED chatVars
    /\ UNCHANGED workers
    /\ UNCHANGED skillVars
    /\ UNCHANGED agent_chunk

----------------------------------------------------------------------------
(* QdrantIntegration (skills/qdrant-integration): the simulated store *)

MaxVectors == 11
MaxSkillCalls == 4

\* the default limit of search
DefaultLimit == 5

CollectionName == "book_chunks"

NoSkillCall ==
    [op |-> "none", status |-> "none", limit |-> 0, score_threshold |-> None,
     payload_filter |-> None, results |-> << >>]

\* a point dict; Malformed lacks the key "vector"
SkillPoint(id, text) == [id |-> id, vector |-> id, payload |-> [text |-> text]]
Malformed == [id |-> 1, payload |-> [text |-> 1]]

\* the lists of points handed to upsert_vectors
Batches ==
    { <<SkillPoint(1, 1)>>,
      <<SkillPoint(1, 2)>>,
      <<SkillPoint(2, 1), Malformed>>,
      [i \in 1..MaxVectors |-> SkillPoint(i, 1)] }

\* create_collection(collection_name, vector_size): the entry is assigned, with
\* an empty list of vectors
create_collection(cols, name, size) ==
    [n \in (DOMAIN cols) \cup {name} |->
        IF n = name THEN [size |-> size, vectors |-> << >>] ELSE cols[n]]

\* upsert_vectors(collection_name, points): an error for an unknown collection
\* or a point without id or vector, else the points are appended to the list
upsert_vectors(cols, name, pts) ==
    IF name \notin DOMAIN cols
    THEN [collections |-> cols, status |-> "error"]
    ELSE IF \E k \in 1..Len(pts) : "id" \notin DOMAIN pts[k] \/ "vector" \notin DOMAIN pts[k]
    THEN [collections |-> cols, status |-> "error"]
    ELSE [collections |-> [cols EXCEPT ![name].vectors = @ \o pts], status |-> "completed"]

\* the simulated similarity of the point at index i (from 0), in hundredths:
\* 0.9 - i * 0.1
SimulatedScore(i) == 90 - i * 10

\* Python's truth value of an Optional[float] and of an Optional[dict]
TruthyNumber(opt) == opt # None /\ opt[1] # 0
TruthyDict(opt) == opt # None /\ DOMAIN opt[1] # {}

\* all(point.get("payload", {}).get(k) == v for k, v in payload_filter.items())
Matches(point, flt) ==
    \A k \in DOMAIN flt : k \in DOMAIN point.payload /\ point.payload[k] = flt[k]

\* search(collection_name, query_vector, limit, score_threshold, payload_filter)
search(cols, name, limit, score_threshold, payload_filter) ==
    IF name \notin DOMAIN cols
    THEN << >>
    ELSE LET vectors == cols[name].vectors
             head == SubSeq(vectors, 1, Min(limit, Len(vectors)))
             Skipped(i) ==
                \/ TruthyNumber(score_threshold) /\ SimulatedScore(i) < score_threshold[1]
                \/ TruthyDict(payload_filter) /\ ~Matches(head[i + 1], payload_filter[1])
             Kept(e) == ~Skipped(e.i)
             results ==
                SelectSeq([k \in 1..Len(head) |->
                              [i |-> k - 1, id |-> head[k].id, score |-> SimulatedScore(k - 1),
                               payload |-> head[k].payload]],
                          Kept)
         IN  SubSeq(results, 1, Min(limit, Len(results)))

SkillLimits == {1, DefaultLimit, MaxVectors}
SkillThresholds == {None, Some(0), Some(80)}
SkillFilters == {None, Some([text |-> 2])}

CallCreateCollection ==
    /\ skill_calls < MaxSkillCalls
    /\ collections' = create_collection(collections, CollectionName, embedding_dimension)
    /\ skill_ret' = [NoSkillCall EXCEPT !.op = "create_collection", !.status = "created"]
    /\ skill_calls' = skill_calls + 1
    /\ UNCHANGED indexVars
    /\ UNCHANGED chunkVars
    /\ UNCHANGED chatVars
    /\ UNCHANGED workers
    /\ UNCHANGED serviceVars
    /\ UNCHANGED agent_chunk

CallUpsertVectors ==
    /\ skill_calls < MaxSkillCalls
    /\ \E pts \in Batches :
          LET res == upsert_vectors(collections, CollectionName, pts)
          IN  /\ collections' = res.collections
              /\ skill_ret' = [NoSkillCall EXCEPT !.op = "upsert_vectors",
                                                  !.status = res.status]
    /\ skill_calls' = skill_calls + 1
    /\ UNCHANGED indexVars
    /\ UNCHANGED chunkVars
    /\ UNCHANGED chatVars
    /\ UNCHANGED workers
    /\ UNCHANGED serviceVars
    /\ UNCHANGED agent_chunk

CallSearch ==
    /\ skill_calls < MaxSkillCalls
    /\ \E limit \in SkillLimits, score_threshold \in SkillThresholds,
          payload_filter \in SkillFilters :
          skill_ret' = [op |-> "search", status |-> "returned", limit |-> limit,
                        score_threshold |-> score_threshold,
                        payload_filter |-> payload_filter,
                        results |-> search(collections, CollectionName, limit,
                                           score_threshold, payload_filter)]
    /\ skill_calls' = skill_calls + 1
    /\ UNCHANGED collections
    /\ UNCHANGED indexVars
    /\ UNCHANGED chunkVars
    /\ UNCHANGED chatVars
    /\ UNCHANGED workers
    /\ UNCHANGED serviceVars
    /\ UNCHANGED agent_chunk

----------------------------------------------------------------------------
(* The chat routes: chat (synchronous) and chat_stream (server-sent events) *)

MaxFragments == 2

\* the questions asked, and the text selected on a page for /chat/context
Questions == {"what is RAG?", "what is a chunk?"}
SelectedTexts == {"the selected passage"}
PageUrls == {"/chapter-1/overview"}

\* limit=2 and "score": 1.0 (in hundredths) in chat_with_selected_text
ContextLimit == 2
SelectedScore == 100

NoRequest ==
    [kind |-> "none", question |-> "", top_k |-> 0, chapter_filter |-> None,
     selected_text |-> None, page_url |-> None]
NoChat ==
    [pc |-> "idle", context_chunks |-> << >>, all_context |-> << >>, prompt |-> None,
     embed_calls |-> 0, generate_calls |-> 0, fragments |-> 0, tokens |-> 0,
     failure |-> "none"]
NoChatResponse == [status |-> 0, sources |-> << >>, detail |-> "none"]

\* the citation built from a context chunk (both routes build the same fields)
SourceOf(chunk) ==
    [page_title |-> chunk.title, page_url |-> chunk.url, section |-> chunk.chapter,
     relevance_score |-> chunk.score]

\* the list comprehension over context_chunks
SourcesReversed(context_chunks) ==
    [k \in 1..Len(context_chunks) |-> SourceOf(context_chunks[Len(context_chunks) + 1 - k])]
Sources(context_chunks) ==
    [k \in 1..Len(context_chunks) |-> SourceOf(context_chunks[k])]

TokenEvent(i) == [kind |-> "token", data |-> i]
SourcesEvent(context_chunks) == [kind |-> "sources", data |-> Sources(context_chunks)]
DoneEvent == [kind |-> "done", data |-> 0]
ErrorEvent(msg) == [kind |-> "error", data |-> msg]

\* the labelled block of chunk number i (from 1): title, chapter, url,
\* relevance to two decimals (scores are hundredths), then the text
ContextBlock(i, chunk) ==
    [label |-> i, title |-> chunk.title, chapter |-> chunk.chapter, url |-> chunk.url,
     relevance |-> chunk.score, text |-> chunk.text]

\* a prompt whose blocks are in the reverse order
create_rag_prompt_reversed(question, context_chunks) ==
    [context_text |-> [i \in 1..Len(context_chunks) |->
                          ContextBlock(i, context_chunks[Len(context_chunks) + 1 - i])],
     question |-> question]

\* create_rag_prompt(question, context_chunks): the blocks of enumerate(context_chunks)
\* joined in order between the fixed opening and the question with the fixed closing
create_rag_prompt(question, context_chunks) ==
    [context_text |-> [i \in 1..Len(context_chunks) |-> ContextBlock(i, context_chunks[i])],
     question |-> question]

\* the context with the selected text last
AllContextAppended(selected_context, context_chunks) ==
    context_chunks \o <<selected_context>>

\* selected_context, and [selected_context] + context_chunks
SelectedContext(selected_text, page_url) ==
    [text |-> selected_text, title |-> "Selected Text", url |-> page_url,
     chapter |-> "User Selection", score |-> SelectedScore]
AllContext(selected_context, context_chunks) == <<selected_context>> \o context_chunks

\* a request arrives at one of the three routes
ChatRequest ==
    /\ req = NoRequest
    /\ \E question \in Questions :
        \/ \E kind \in {"chat", "stream"}, top_k \in 1..MaxTopK,
              chapter_filter \in ChapterFilters :
              req' = [NoRequest EXCEPT !.kind = kind, !.question = question,
                                       !.top_k = top_k, !.chapter_filter = chapter_filter]
        \/ \E selected_text \in SelectedTexts, page_url \in PageUrls :
              req' = [NoRequest EXCEPT !.kind = "context", !.question = question,
                                       !.top_k = ContextLimit,
                                       !.selected_text = Some(selected_text),
                                       !.page_url = Some(page_url)]
    /\ chat' = [NoChat EXCEPT !.pc = "start"]
    /\ UNCHANGED <<events, chat_response>>
    /\ UNCHANGED indexVars
    /\ UNCHANGED chunkVars
    /\ UNCHANGED workers
    /\ UNCHANGED skillVars
    /\ UNCHANGED serviceVars
    /\ UNCHANGED agent_chunk

\* the except clause of chat: every Exception raised in the try body, the
\* HTTPException of the no-results branch included, becomes a 500
ChatExcept(exc) == [status |-> 500, sources |-> << >>, detail |-> exc]

\* the try body of chat after the search: 404 when nothing was found, else the
\* generated answer with its sources, or what generate_response raised
ChatBody(context_chunks, generated) ==
    IF context_chunks = << >>
    THEN [raised |-> TRUE, exc |-> "404: No relevant content found", response |-> NoChatResponse]
    ELSE IF ~generated
    THEN [raised |-> TRUE, exc |-> "generation failed", response |-> NoChatResponse]
    ELSE [raised |-> FALSE, exc |-> "",
          response |-> [status |-> 200, sources |-> Sources(context_chunks), detail |-> "answer"]]

\* the synchronous chat route
Chat ==
    /\ req.kind = "chat" /\ chat.pc = "start"
    /\ \E found \in search_similar(req.top_k, req.chapter_filter), generated \in BOOLEAN :
        /\ collection' = found.collection
        /\ vector_size' = SizeAfter(found.collection)
        /\ IF found.raised
           THEN /\ chat_response' = ChatExcept("retrieval failed")
                /\ chat' = [chat EXCEPT !.pc = "closed", !.failure = "retrieval",
                                        !.embed_calls = found.embeddings]
           ELSE LET body == ChatBody(found.results, generated)
                    invoked == found.results # << >>
                IN  /\ chat_response' = IF body.raised THEN ChatExcept(body.exc)
                                        ELSE body.response
                    /\ chat' = [chat EXCEPT
                                  !.pc = "closed",
                                  !.context_chunks = found.results,
                                  !.embed_calls = found.embeddings,
                                  !.generate_calls = IF invoked THEN 1 ELSE 0,
                                  !.prompt = IF invoked
                                             THEN Some(create_rag_prompt(req.question,
                                                                         found.results))
                                             ELSE None,
                                  !.failure = IF found.results = << >> THEN "no_results"
                                              ELSE IF body.raised THEN "provider"
                                              ELSE "none"]
    /\ UNCHANGED <<disk, points, now, rx, response, history, req, events>>
    /\ UNCHANGED chunkVars
    /\ UNCHANGED workers
    /\ UNCHANGED skillVars
    /\ UNCHANGED serviceVars
    /\ UNCHANGED agent_chunk

\* chat_with_selected_text: the selected text is put before what the search
\* returned, empty or not, and the answer is generated from both; every
\* exception becomes a 500
ChatContext ==
    /\ req.kind = "context" /\ chat.pc = "start"
    /\ \E found \in search_similar(ContextLimit, None), generated \in BOOLEAN :
        /\ collection' = found.collection
        /\ vector_size' = SizeAfter(found.collection)
        /\ IF found.raised
           THEN /\ chat_response' = ChatExcept("retrieval failed")
                /\ chat' = [chat EXCEPT !.pc = "closed", !.failure = "retrieval",
                                        !.embed_calls = found.embeddings]
           ELSE LET all_context ==
                        AllContext(SelectedContext(req.selected_text[1], req.page_url[1]),
                                   found.results)
                    called == [chat EXCEPT
                                  !.pc = "closed",
                                  !.context_chunks = found.results,
                                  !.all_context = all_context,
                                  !.embed_calls = found.embeddings,
                                  !.generate_calls = 1,
                                  !.prompt = Some(create_rag_prompt(req.question, all_context))]
                IN  IF generated
                    THEN /\ chat' = called
                         /\ chat_response' = [status |-> 200, sources |-> Sources(all_context),
                                              detail |-> "answer"]
                    ELSE /\ chat' = [called EXCEPT !.failure = "provider"]
                         /\ chat_response' = ChatExcept("generation failed")
    /\ UNCHANGED <<disk, points, now, rx, response, history, req, events>>
    /\ UNCHANGED chunkVars
    /\ UNCHANGED workers
    /\ UNCHANGED skillVars
    /\ UNCHANGED serviceVars
    /\ UNCHANGED agent_chunk

\* what the generator yields from its except clause, and from the no-results branch
StreamErrorNone(msg) == << >>
StreamError(msg) == <<ErrorEvent(msg)>>

\* the generator's position after the no-results branch: it returns
AfterNoResultsFallThrough == "searched"
AfterNoResults == "closed"

\* chat_stream's generator, step 1: the search
StreamSearch ==
    /\ req.kind = "stream" /\ chat.pc = "start"
    /\ \E found \in search_similar(req.top_k, req.chapter_filter) :
        /\ collection' = found.collection
        /\ vector_size' = SizeAfter(found.collection)
        /\ IF found.raised
           THEN /\ events' = events \o StreamError("retrieval failed")
                /\ chat' = [chat EXCEPT !.pc = "closed", !.failure = "retrieval",
                                        !.embed_calls = found.embeddings]
           ELSE IF found.results = << >>
           THEN /\ events' = events \o StreamError("No relevant content found")
                /\ chat' = [chat EXCEPT !.pc = AfterNoResults, !.failure = "no_results",
                                        !.embed_calls = found.embeddings]
           ELSE /\ events' = events
                /\ chat' = [chat EXCEPT !.pc = "searched", !.context_chunks = found.results,
                                        !.embed_calls = found.embeddings]
    /\ UNCHANGED <<disk, points, now, rx, response, history, req, chat_response>>
    /\ UNCHANGED chunkVars
    /\ UNCHANGED workers
    /\ UNCHANGED skillVars
    /\ UNCHANGED serviceVars
    /\ UNCHANGED agent_chunk

\* step 2: generate_response(stream=True) builds the prompt and opens the
\* provider's stream, or raises
StreamOpen ==
    /\ req.kind = "stream" /\ chat.pc = "searched"
    /\ LET called == [chat EXCEPT
                         !.prompt = Some(create_rag_prompt(req.question, chat.context_chunks)),
                         !.generate_calls = @ + 1]
       IN  \/ /\ chat' = [called EXCEPT !.pc = "streaming"]
              /\ events' = events
           \/ /\ chat' = [called EXCEPT !.pc = "closed", !.failure = "provider"]
              /\ events' = events \o StreamError("generation failed")
    /\ UNCHANGED <<req, chat_response>>
    /\ UNCHANGED indexVars
    /\ UNCHANGED chunkVars
    /\ UNCHANGED workers
    /\ UNCHANGED skillVars
    /\ UNCHANGED serviceVars
    /\ UNCHANGED agent_chunk

\* the provider sends a fragment with content: _stream_response yields it and
\* the route yields a token event
StreamToken ==
    /\ req.kind = "stream" /\ chat.pc = "streaming"
    /\ chat.fragments < MaxFragments
    /\ chat' = [chat EXCEPT !.fragments = @ + 1, !.tokens = @ + 1]
    /\ events' = Append(events, TokenEvent(chat.fragments + 1))
    /\ UNCHANGED <<req, chat_response>>
    /\ UNCHANGED indexVars
    /\ UNCHANGED chunkVars
    /\ UNCHANGED workers
    /\ UNCHANGED skillVars
    /\ UNCHANGED serviceVars
    /\ UNCHANGED agent_chunk

\* the provider sends a fragment without content: _stream_response skips it
StreamSkipEmpty ==
    /\ req.kind = "stream" /\ chat.pc = "streaming"
    /\ chat.fragments < MaxFragments
    /\ chat' = [chat EXCEPT !.fragments = @ + 1]
    /\ UNCHANGED <<req, events, chat_response>>
    /\ UNCHANGED indexVars
    /\ UNCHANGED chunkVars
    /\ UNCHANGED workers
    /\ UNCHANGED skillVars
    /\ UNCHANGED serviceVars
    /\ UNCHANGED agent_chunk

\* the provider fails while the stream is read: the except clause yields the error
StreamProviderError ==
    /\ req.kind = "stream" /\ chat.pc = "streaming"
    /\ chat' = [chat EXCEPT !.pc = "closed", !.failure = "provider"]
    /\ events' = events \o StreamError("stream failed")
    /\ UNCHANGED <<req, chat_response>>
    /\ UNCHANGED indexVars
    /\ UNCHANGED chunkVars
    /\ UNCHANGED workers
    /\ UNCHANGED skillVars
    /\ UNCHANGED serviceVars
    /\ UNCHANGED agent_chunk

\* the provider's stream is exhausted: the sources event is yielded
StreamSources ==
    /\ req.kind = "stream" /\ chat.pc = "streaming"
    /\ chat' = [chat EXCEPT !.pc = "sources_sent"]
    /\ events' = Append(events, SourcesEvent(chat.context_chunks))
    /\ UNCHANGED <<req, chat_response>>
    /\ UNCHANGED indexVars
    /\ UNCHANGED chunkVars
    /\ UNCHANGED workers
    /\ UNCHANGED skillVars
    /\ UNCHANGED serviceVars
    /\ UNCHANGED agent_chunk

\* the done event is yielded and the generator ends
StreamDone ==
    /\ req.kind = "stream" /\ chat.pc = "sources_sent"
    /\ chat' = [chat EXCEPT !.pc = "closed"]
    /\ events' = Append(events, DoneEvent)
    /\ UNCHANGED <<req, chat_response>>
    /\ UNCHANGED indexVars
    /\ UNCHANGED chunkVars
    /\ UNCHANGED workers
    /\ UNCHANGED skillVars
    /\ UNCHANGED serviceVars
    /\ UNCHANGED agent_chunk

----------------------------------------------------------------------------
(* Specifications *)

\* chunk_text called once on arguments drawn from ChunkArgs
ChunkInit ==
    /\ ct_args \in ChunkArgs
    /\ ct_ret = NoReturn
    /\ disk = [f \in Files |-> NoFile]
    /\ collection = FALSE
    /\ vector_size = 0
    /\ points = << >>
    /\ now = 0
    /\ rx = NoRun
    /\ response = NoResponse
    /\ history = [d \in DocIds |-> << >>]
    /\ req = NoRequest
    /\ chat = NoChat
    /\ events = << >>
    /\ chat_response = NoChatResponse
    /\ workers = NoWorkers
    /\ collections = << >>
    /\ skill_ret = NoSkillCall
    /\ skill_calls = 0
    /\ qdrant_env = TRUE
    /\ chat_qdrant = NoStore
    /\ chat_seen = NoRetrieval
    /\ agent_chunk = NoAgentChunk

ChunkNext == CallChunkText

SpecChunk == ChunkInit /\ [][ChunkNext]_vars

\* re-index runs of the admin route and of the script over an edited docs tree
IndexNext ==
    \/ EditFile
    \/ AdminReindexStart
    \/ AdminReindexStep
    \/ AdminReindexFinish
    \/ ScriptStart
    \/ ScriptStep
    \/ ScriptFinish

IndexInit ==
    /\ disk = ScenarioTree
    /\ collection = FALSE
    /\ vector_size = 0
    /\ points = << >>
    /\ now = 0
    /\ rx = NoRun
    /\ response = NoResponse
    /\ history = [d \in DocIds |-> << >>]
    /\ ct_args = [n |-> 0, chunk_size |-> 1, overlap |-> 0]
    /\ ct_ret = NoReturn
    /\ req = NoRequest
    /\ chat = NoChat
    /\ events = << >>
    /\ chat_response = NoChatResponse
    /\ workers = NoWorkers
    /\ collections = << >>
    /\ skill_ret = NoSkillCall
    /\ skill_calls = 0
    /\ qdrant_env = TRUE
    /\ chat_qdrant = NoStore
    /\ chat_seen = NoRetrieval
    /\ agent_chunk = NoAgentChunk

SpecIndex == IndexInit /\ [][IndexNext]_vars

\* the stores a chat request can meet: no collection, an empty collection, or
\* documents of the scenario's docs tree indexed
PointsOfFile(f) ==
    BuildPoints(DocId(f), TitleCase(Stem(f)), f, ScenarioTree[f], f, Chapter(f))

ChatInit ==
    /\ now = 0
    /\ \E st \in { <<FALSE, << >> >>,
                    <<TRUE, << >> >>,
                    <<TRUE, PointsOfFile(F_intro)>>,
                    <<TRUE, Upsert(PointsOfFile(F_intro), PointsOfFile(F_ch1))>> } :
          /\ collection = st[1]
          /\ vector_size = (IF st[1] THEN embedding_dimension ELSE 0)
          /\ points = st[2]
    /\ disk = ScenarioTree
    /\ rx = NoRun
    /\ response = NoResponse
    /\ history = [d \in DocIds |-> << >>]
    /\ ct_args = [n |-> 0, chunk_size |-> 1, overlap |-> 0]
    /\ ct_ret = NoReturn
    /\ req = NoRequest
    /\ chat = NoChat
    /\ events = << >>
    /\ chat_response = NoChatResponse
    /\ workers = NoWorkers
    /\ collections = << >>
    /\ skill_ret = NoSkillCall
    /\ skill_calls = 0
    /\ qdrant_env = TRUE
    /\ chat_qdrant = NoStore
    /\ chat_seen = NoRetrieval
    /\ agent_chunk = NoAgentChunk

ChatNext ==
    \/ ChatRequest
    \/ Chat
    \/ ChatContext
    \/ StreamSearch
    \/ StreamOpen
    \/ StreamToken
    \/ StreamSkipEmpty
    \/ StreamProviderError
    \/ StreamSources
    \/ StreamDone

SpecChat == ChatInit /\ [][ChatNext]_vars

\* two runs over the scenario's docs tree, on a store without the collection or
\* with one made earlier, for this embedding model or for the large one
ConcInit ==
    /\ disk = ScenarioTree
    /\ \E st \in { <<FALSE, 0>>, <<TRUE, embedding_dimension>>, <<TRUE, LargeDimension>> } :
          /\ collection = st[1]
          /\ vector_size = st[2]
    /\ points = << >>
    /\ now = 0
    /\ rx = NoRun
    /\ response = NoResponse
    /\ history = [d \in DocIds |-> << >>]
    /\ ct_args = [n |-> 0, chunk_size |-> 1, overlap |-> 0]
    /\ ct_ret = NoReturn
    /\ req = NoRequest
    /\ chat = NoChat
    /\ events = << >>
    /\ chat_response = NoChatResponse
    /\ workers = NoWorkers
    /\ collections = << >>
    /\ skill_ret = NoSkillCall
    /\ skill_calls = 0
    /\ qdrant_env = TRUE
    /\ chat_qdrant = NoStore
    /\ chat_seen = NoRetrieval
    /\ agent_chunk = NoAgentChunk

ConcNext ==
    \E w \in Runs :
        \/ WorkerStart(w)
        \/ GetCollection(w)
        \/ CreateCollection(w)
        \/ Embed(w)
        \/ UpsertPoints(w)

SpecConcurrent == ConcInit /\ [][ConcNext]_vars

\* calls on a fresh QdrantIntegration
SkillInit ==
    /\ collections = << >>
    /\ skill_ret = NoSkillCall
    /\ skill_calls = 0
    /\ qdrant_env = TRUE
    /\ chat_qdrant = NoStore
    /\ chat_seen = NoRetrieval
    /\ agent_chunk = NoAgentChunk
    /\ disk = [f \in Files |-> NoFile]
    /\ collection = FALSE
    /\ vector_size = 0
    /\ points = << >>
    /\ now = 0
    /\ rx = NoRun
    /\ response = NoResponse
    /\ history = [d \in DocIds |-> << >>]
    /\ ct_args = [n |-> 0, chunk_size |-> 1, overlap |-> 0]
    /\ ct_ret = NoReturn
    /\ req = NoRequest
    /\ chat = NoChat
    /\ events = << >>
    /\ chat_response = NoChatResponse
    /\ workers = NoWorkers

SkillNext ==
    \/ CallCreateCollection
    \/ CallUpsertVectors
    \/ CallSearch

SpecSkill == SkillInit /\ [][SkillNext]_vars

\* RAGEngineerAgent.chunk_text called once on arguments drawn from ChunkArgs
AgentChunkInit ==
    /\ \E args \in ChunkArgs :
          agent_chunk = [NoAgentChunk EXCEPT !.pc = "loop", !.n = args.n,
                                            !.chunk_size = args.chunk_size,
                                            !.overlap = args.overlap]
    /\ ct_args = [n |-> 0, chunk_size |-> 1, overlap |-> 0]
    /\ ct_ret = NoReturn
    /\ disk = [f \in Files |-> NoFile]
    /\ collection = FALSE
    /\ vector_size = 0
    /\ points = << >>
    /\ now = 0
    /\ rx = NoRun
    /\ response = NoResponse
    /\ history = [d \in DocIds |-> << >>]
    /\ req = NoRequest
    /\ chat = NoChat
    /\ events = << >>
    /\ chat_response = NoChatResponse
    /\ workers = NoWorkers
    /\ collections = << >>
    /\ skill_ret = NoSkillCall
    /\ skill_calls = 0
    /\ qdrant_env = TRUE
    /\ chat_qdrant = NoStore
    /\ chat_seen = NoRetrieval

AgentChunkNext == AgentChunkStep

SpecAgentChunk == AgentChunkInit /\ [][AgentChunkNext]_vars

\* the backend as one process: re-index requests on the admin routes and
\* retrievals on the chat routes, with or without a Qdrant server configured,
\* over a docs tree that holds the intro alone
ServiceInit ==
    /\ qdrant_env \in BOOLEAN
    /\ chat_qdrant = NoStore
    /\ chat_seen = NoRetrieval
    /\ disk = [f \in Files |-> IF f = F_ch1 THEN NoFile ELSE ScenarioTree[f]]
    /\ collection = FALSE
    /\ vector_size = 0
    /\ points = << >>
    /\ now = 0
    /\ rx = NoRun
    /\ response = NoResponse
    /\ history = [d \in DocIds |-> << >>]
    /\ ct_args = [n |-> 0, chunk_size |-> 1, overlap |-> 0]
    /\ ct_ret = NoReturn
    /\ req = NoRequest
    /\ chat = NoChat
    /\ events = << >>
    /\ chat_response = NoChatResponse
    /\ workers = NoWorkers
    /\ collections = << >>
    /\ skill_ret = NoSkillCall
    /\ skill_calls = 0
    /\ agent_chunk = NoAgentChunk

ServiceNext ==
    \/ AdminReindexStart
    \/ AdminReindexStep
    \/ AdminReindexFinish
    \/ ServiceChat

SpecService == ServiceInit /\ [][ServiceNext]_vars

----------------------------------------------------------------------------
(* Claims about chunk_text *)

ChunkReturned == ct_ret.kind = "ok"
ChunkCalled == ct_ret.kind # "none"

C6_OverlapGeSizeFails ==
    (ChunkCalled /\ ct_args.overlap >= ct_args.chunk_size) => ct_ret.kind = "ValueError"

----------------------------------------------------------------------------
(* Claims about the chat routes *)

StreamClosed == req.kind = "stream" /\ chat.pc = "closed"

\* the events before the first error event
BeforeError(evs) == SelectSeq(evs, LAMBDA e : e.kind # "error")

EventRank(e) ==
    CASE e.kind = "token" -> 0
      [] e.kind = "sources" -> 1
      [] e.kind = "done" -> 2
      [] OTHER -> 3

\* C1: the events of a streamed chat request match token*, then at most one
\* sources, then at most one done; and no event of any kind follows an error event.
C1_StreamEventOrder ==
    /\ \A i, j \in DOMAIN events : i < j => events[i].kind # "error"
    /\ LET evs == BeforeError(events)
       IN  \A i, j \in DOMAIN evs :
              i < j => \/ EventRank(evs[i]) < EventRank(evs[j])
                       \/ (evs[i].kind = "token" /\ evs[j].kind = "token")
    /\ (\E i \in DOMAIN events : events[i].kind = "error") => chat.pc = "closed"

\* C1 witness: a stream that sent a token, then sources, then done.
C1_Witness ==
    /\ StreamClosed
    /\ Len(events) >= 3
    /\ events[1].kind = "token"
    /\ events[Len(events)].kind = "done"

\* C2 (as stated): in the synchronous chat flow a retrieval that returns no
\* results yields 404, an embedding or generation failure yields 500, and no
\* answer is returned with an empty source list.
C2_NoResultsIsNotFound ==
    (req.kind = "chat" /\ chat.pc = "closed")
    => /\ chat.failure = "no_results" => chat_response.status = 404
       /\ chat.failure \in {"retrieval", "provider"} => chat_response.status = 500
       /\ chat_response.status = 200 => chat_response.sources # << >>

\* C3: if the generative provider fails after zero or more token events, the
\* stream holds those token events and then exactly one error event, and it is
\* over: no sources event and no done event follows.
C3_ProviderFailureEndsStream ==
    (req.kind = "stream" /\ chat.failure = "provider")
    => /\ chat.pc = "closed"
       /\ Len(events) = chat.tokens + 1
       /\ \A k \in 1..chat.tokens : events[k].kind = "token"
       /\ events[Len(events)].kind = "error"

\* C3 witness: the provider failed after a token event had been sent.
C3_Witness ==
    /\ req.kind = "stream"
    /\ chat.failure = "provider"
    /\ chat.tokens >= 1
    /\ events[Len(events)].kind = "error"

\* C4: when the provider's fragments are exhausted without failure, the token
\* events are followed by exactly one sources event, with one entry per retrieved
\* context chunk in retrieval order, then by exactly one done event, and nothing
\* after it.
C4_ExhaustedStreamEndsSourcesDone ==
    (req.kind = "stream" /\ chat.failure = "none" /\ chat.pc \in {"sources_sent", "closed"})
    => LET n == chat.tokens
           ctx == chat.context_chunks
       IN  /\ Len(events) = n + (IF chat.pc = "closed" THEN 2 ELSE 1)
           /\ \A k \in 1..n : events[k].kind = "token"
           /\ events[n + 1].kind = "sources"
           /\ Len(events[n + 1].data) = Len(ctx)
           /\ \A k \in 1..Len(ctx) :
                /\ events[n + 1].data[k].page_title = ctx[k].title
                /\ events[n + 1].data[k].page_url = ctx[k].url
                /\ events[n + 1].data[k].section = ctx[k].chapter
                /\ events[n + 1].data[k].relevance_score = ctx[k].score
           /\ chat.pc = "closed" => events[n + 2].kind = "done"

\* C4 witness: a stream that ended normally after a token, over two different
\* context chunks.
C4_Witness ==
    /\ StreamClosed
    /\ chat.failure = "none"
    /\ chat.tokens >= 1
    /\ Len(chat.context_chunks) = 2
    /\ chat.context_chunks[1] # chat.context_chunks[2]
    /\ events[Len(events)].kind = "done"

----------------------------------------------------------------------------
(* Claims about re-indexing *)

\* C7: indexing the same document (same doc_id, same content) twice in a row
\* writes the same point ids and returns the same chunk count both times, and
\* the store holds as many points for the document after the second call as
\* after the first.
C7_ReindexIdempotent ==
    \A d \in DocIds :
        (/\ Len(history[d]) = 2
         /\ history[d][1].file = history[d][2].file
         /\ history[d][1].content = history[d][2].content)
        => /\ history[d][1].ids = history[d][2].ids
           /\ history[d][1].ret = history[d][2].ret
           /\ history[d][1].stored = history[d][2].stored

\* C7 witness: the 900-word overview was indexed twice, unchanged.
C7_Witness ==
    /\ Len(history["overview"]) = 2
    /\ history["overview"][1].file = history["overview"][2].file
    /\ history["overview"][1].content = history["overview"][2].content
    /\ history["overview"][2].ret >= 2
    /\ Cardinality(PointsOf(points, "overview")) = history["overview"][2].ret

\* C8: an exception raised while one document is processed never ends the run:
\* in the admin loop and in the script every discovered document is attempted
\* exactly once, in order; a run ends early only before its loop began.
C8_EveryDocumentAttemptedOnce ==
    /\ rx.pc = "loop" => rx.attempted = SubSeq(rx.files, 1, rx.pos - 1)
    /\ rx.pc = "done" => rx.attempted = rx.files
    /\ rx.pc = "aborted" => (rx.kind = "script" /\ rx.attempted = << >>)
    /\ rx.failed \subseteq SeqRange(rx.attempted)

\* C8 witness: a finished run in which a document failed and a later one was
\* indexed.
C8_Witness ==
    /\ rx.pc = "done"
    /\ Len(rx.files) >= 2
    /\ rx.files[1] \in rx.failed
    /\ rx.files[Len(rx.files)] \notin rx.failed
    /\ rx.total_chunks >= 1

\* C9 (as stated): the report of a foreground re-index has failed_count equal to
\* the number of documents that failed and indexed_count equal to the number
\* that succeeded, failed documents adding nothing to the chunk total.
C9_FailedCountReported ==
    (rx.kind = "admin" /\ rx.pc = "done" /\ ~rx.background)
    => /\ response.failed_count = Cardinality(rx.failed)
       /\ response.indexed_count = Len(rx.files) - Cardinality(rx.failed)

\* C10 (as stated): a foreground re-index of the two documents of 150 and 900
\* words yields 1 chunk and 2 chunks (words [0,800) and [700,900)), so the
\* report has indexed_count = 2 and a total of 3 chunks.
C10_ScenarioReport ==
    (/\ rx.kind = "admin" /\ rx.pc = "done" /\ ~rx.background
     /\ disk = ScenarioTree
     /\ rx.failed = {})
    => /\ response.indexed_count = 2
       /\ response.details = << [file |-> FileName(F_intro), chunks |-> 1],
                                [file |-> FileName(F_ch1), chunks |-> 2] >>
       /\ response.message = <<"indexed", 2, 3>>
       /\ points[PointId("overview", 0)].payload.text.span = <<0, 800>>
       /\ points[PointId("overview", 1)].payload.text.span = <<700, 900>>

\* C11 (as stated): two distinct documents never produce the same chunk id, so
\* indexing one document never overwrites a chunk of another: a stored point
\* that is written again keeps the document (url) it came from.
C11_NoCrossDocumentOverwrite ==
    [][\A id \in (DOMAIN points) \cap (DOMAIN points') :
          points'[id].payload.url = points[id].payload.url]_vars

\* C12 (as stated): a document is superseded by a later re-index: once a file
\* has been indexed, every chunk of that file in the store is a chunk of the
\* version indexed last.
C12_SupersededNotMerged ==
    \A d \in DocIds :
        Len(history[d]) >= 1
        => LET last == history[d][Len(history[d])]
           IN  \A id \in PointsOf(points, d) :
                  points[id].payload.text.file = last.file
                  => points[id].payload.text.words = last.content.words

----------------------------------------------------------------------------
(* Claims about the coverage of chunk_text *)

\* the word positions a chunk <<lo, hi>> holds
Covers(chunk, p) == chunk[1] <= p /\ p < chunk[2]

\* C20: for a text of N words and 0 < overlap < chunk_size, every word position
\* in [0, N) lies in at least one returned segment and every returned segment
\* is non-empty.
C20_EveryPositionCovered ==
    (ChunkReturned /\ 0 < ct_args.overlap /\ ct_args.overlap < ct_args.chunk_size)
    => /\ \A p \in 0..(ct_args.n - 1) :
             \E k \in 1..Len(ct_ret.chunks) : Covers(ct_ret.chunks[k], p)
       /\ \A k \in 1..Len(ct_ret.chunks) :
             ct_ret.chunks[k][2] - ct_ret.chunks[k][1] > 0

\* a text cut into three or more overlapping segments, the last one short
C20_Witness ==
    /\ ChunkReturned
    /\ 0 < ct_args.overlap /\ ct_args.overlap < ct_args.chunk_size
    /\ Len(ct_ret.chunks) >= 3
    /\ ct_ret.chunks[Len(ct_ret.chunks)][2] - ct_ret.chunks[Len(ct_ret.chunks)][1]
          < ct_args.chunk_size

----------------------------------------------------------------------------
(* Claims about retrieval *)

\* C18 (as stated): whenever a chapter filter value is supplied to
\* search_similar, every returned result has chapter exactly equal to the
\* supplied value.
C18_SuppliedFilterIsExactMatch ==
    req.chapter_filter # None
    => \A k \in 1..Len(chat.context_chunks) :
          chat.context_chunks[k].chapter = req.chapter_filter[1]

\* C19 (as stated): retrieval has no side effect on the vector store: the
\* collections and the stored points are the same after search_similar as
\* before it.
C19_SearchLeavesStoreUnchanged ==
    [][(chat.pc = "start" /\ chat'.pc # "start")
          => (collection' = collection /\ points' = points)]_vars

----------------------------------------------------------------------------
(* Claims about concurrent re-indexing and ensure_collection_exists *)

RunsDone == \A w \in Runs : workers[w].pc = "done"

\* the point ids one run over the docs tree produces
SingleRunIds ==
    UNION {DOMAIN BuildPoints(DocId(f), TitleCase(Stem(f)), f, disk[f], f, Chapter(f)) :
              f \in SeqRange(Discover(disk))}

\* C13: two runs over the same corpus, interleaved in any way, converge: when
\* both are done and neither lost a document to a failed embedding or upsert
\* call, the store holds exactly the point ids a single run produces.
C13_ConcurrentRunsConverge ==
    (RunsDone /\ \A w \in Runs : workers[w].failures \cap {"embeddings", "upsert"} = {})
    => DOMAIN points = SingleRunIds

\* both runs are done, one of them lost the race to create the collection, and
\* the store holds the ids of a single run
C13_Witness ==
    /\ RunsDone
    /\ \A w \in Runs : workers[w].failures \cap {"embeddings", "upsert"} = {}
    /\ \E w \in Runs : "create_collection" \in workers[w].failures
    /\ DOMAIN points = SingleRunIds
    /\ Cardinality(DOMAIN points) >= 3

\* C14 (as stated): ensure_collection_exists never fails because another caller
\* created the collection first.
C14_EnsureNeverFailsOnRace ==
    \A w \in Runs : "create_collection" \notin workers[w].failures

\* C15 (as stated): when the collection exists with a vector size other than
\* the configured embedding dimension, ensure_collection_exists does not return
\* successfully.
C15_SizeMismatchIsRejected ==
    [][\A w \in Runs :
          (/\ workers[w].pc = "get_collection"
           /\ collection /\ vector_size # embedding_dimension)
          => workers'[w].pc # "embed"]_vars

----------------------------------------------------------------------------
(* Claims about the store contract *)

\* C16 (as stated): upsert is insert-or-replace keyed by id: after any sequence
\* of upserts the number of stored points equals the number of distinct ids.
C16_UpsertReplacesById ==
    \A n \in DOMAIN collections :
        LET vectors == collections[n].vectors
        IN  Len(vectors) = Cardinality({vectors[k].id : k \in 1..Len(vectors)})

\* C17 (as stated): every list returned by retrieval is sorted by
\* non-increasing score and holds no result whose score is below the score
\* threshold in force for the call.
C17_SortedAndAboveThreshold ==
    skill_ret.op = "search"
    => /\ \A j, k \in 1..Len(skill_ret.results) :
             j < k => skill_ret.results[j].score >= skill_ret.results[k].score
       /\ skill_ret.score_threshold # None
          => \A k \in 1..Len(skill_ret.results) :
                skill_ret.results[k].score >= skill_ret.score_threshold[1]

----------------------------------------------------------------------------
(* Claims about the segments of chunk_text and the points of index_document *)

\* the number of words of a chunk <<lo, hi>>
Words(chunk) == chunk[2] - chunk[1]

\* C30 (as stated): for 0 < overlap < chunk_size only the final segment may be
\* shorter than chunk_size: every other segment has exactly chunk_size words,
\* and consecutive segments share exactly overlap words.
C30_OnlyLastSegmentShort ==
    (ChunkReturned /\ 0 < ct_args.overlap /\ ct_args.overlap < ct_args.chunk_size)
    => \A k \in 1..(Len(ct_ret.chunks) - 1) :
          /\ Words(ct_ret.chunks[k]) = ct_args.chunk_size
          /\ ct_ret.chunks[k][2] - ct_ret.chunks[k + 1][1] = ct_args.overlap

\* C21: every successful index_document call wrote the ids doc_id_chunk_i for
\* i = 0..k-1, k the number of chunks of the content, and returned k; every
\* stored point carries its i as chunk_index and a non-empty text, and the
\* chunks of one version of a file start later as i grows.
C21_PointIdsContiguousFromZero ==
    /\ \A d \in DocIds : \A n \in 1..Len(history[d]) :
          LET h == history[d][n]
              k == Len(chunk_text(h.content.words, DefaultChunkSize, DefaultOverlap).chunks)
          IN  /\ h.ids = {<<d, i>> : i \in 0..(k - 1)}
              /\ h.ret = k
    /\ \A id \in DOMAIN points :
          /\ points[id].payload.doc_id = id[1]
          /\ points[id].payload.chunk_index = id[2]
          /\ Words(points[id].payload.text.span) > 0
    /\ \A id1, id2 \in DOMAIN points :
          (/\ id1[1] = id2[1] /\ id1[2] < id2[2]
           /\ points[id1].payload.text.file = points[id2].payload.text.file
           /\ points[id1].payload.text.words = points[id2].payload.text.words)
          => points[id1].payload.text.span[1] < points[id2].payload.text.span[1]

\* a document of three chunks has been indexed and its three points are stored
C21_Witness ==
    \E d \in DocIds :
        /\ Len(history[d]) >= 1
        /\ history[d][Len(history[d])].ret = 3
        /\ {<<d, 0>>, <<d, 1>>, <<d, 2>>} \subseteq DOMAIN points
        /\ points[<<d, 2>>].payload.chunk_index = 2

\* C27: when an embedding call fails inside index_document, no point is
\* written: the step of the loop that ends so leaves the stored points as they
\* were, the points of earlier documents included.
C27_FailedDocumentWritesNothing ==
    [][(rx.pc = "loop" /\ rx'.pos = rx.pos + 1 /\ rx'.outcome = "embed_error")
          => points' = points]_vars

\* the three-chunk overview failed in an embedding call after the intro had
\* been indexed: the intro's point is stored, none of the overview
C27_Witness ==
    /\ rx.outcome = "embed_error"
    /\ rx.attempted = <<F_intro, F_ch1>>
    /\ F_ch1 \in rx.failed /\ F_intro \notin rx.failed
    /\ <<DocId(F_intro), 0>> \in DOMAIN points
    /\ PointsOf(points, DocId(F_ch1)) = {}

----------------------------------------------------------------------------
(* Claims about the chat routes' failure paths *)

\* C25: in the streaming chat flow, when retrieval returns no results the
\* generator is never invoked and the stream is exactly one error event: no
\* token, sources or done event, then or later.
C25_NoResultsStreamIsOneError ==
    (req.kind = "stream" /\ chat.failure = "no_results")
    => /\ events = <<ErrorEvent("No relevant content found")>>
       /\ chat.pc = "closed"
       /\ chat.fragments = 0 /\ chat.tokens = 0

\* a stream over an indexed corpus none of whose chunks was retrieved
C25_Witness ==
    /\ req.kind = "stream" /\ chat.failure = "no_results"
    /\ collection /\ points # << >>
    /\ Len(events) = 1 /\ events[1].kind = "error"

\* C26 (as stated): a re-index request whose docs path does not exist is
\* answered with HTTP 404, not with the 500 of unexpected failures, in
\* foreground and in background mode, and no document is indexed.
C26_MissingPathIsNotFound ==
    rx.outcome = "path_not_found"
    => /\ response.code = 404
       /\ rx.attempted = << >>

----------------------------------------------------------------------------
(* Claims about the prompt, the selected-text flow and provider calls *)

\* the context a request's prompt is built from
PromptContext == IF req.kind = "context" THEN chat.all_context ELSE chat.context_chunks

\* C22: create_rag_prompt renders one labelled block per context chunk, in the
\* order the chunks were received, numbered 1..n, followed by the question as
\* asked.
C22_PromptBlocksInOrder ==
    chat.prompt # None
    => LET prompt == chat.prompt[1]
       IN  /\ Len(prompt.context_text) = Len(PromptContext)
           /\ \A i \in 1..Len(PromptContext) :
                 /\ prompt.context_text[i].label = i
                 /\ prompt.context_text[i].title = PromptContext[i].title
                 /\ prompt.context_text[i].chapter = PromptContext[i].chapter
                 /\ prompt.context_text[i].url = PromptContext[i].url
                 /\ prompt.context_text[i].relevance = PromptContext[i].score
                 /\ prompt.context_text[i].text = PromptContext[i].text
           /\ prompt.question = req.question

\* a prompt of two different retrieved chunks
C22_Witness ==
    /\ req.kind \in {"chat", "stream"}
    /\ chat.prompt # None
    /\ Len(chat.prompt[1].context_text) = 2
    /\ chat.prompt[1].context_text[1].text # chat.prompt[1].context_text[2].text
    /\ chat.prompt[1].context_text[2].label = 2
    /\ chat.prompt[1].question \in Questions

\* the source of the pinned entry of the request
PinnedSource ==
    [page_title |-> "Selected Text", page_url |-> req.page_url[1],
     section |-> "User Selection", relevance_score |-> 100]

\* C23: in the selected-text flow the pinned entry is the first context chunk
\* and the first returned source, with relevance 1.0 and the fixed label,
\* whatever the retrieval returned, followed by the retrieved chunks in
\* retrieval order.
C23_PinnedEntryFirst ==
    /\ (req.kind = "context" /\ chat.prompt # None)
       => /\ chat.all_context # << >>
          /\ SourceOf(chat.all_context[1]) = PinnedSource
          /\ chat.all_context[1].text = req.selected_text[1]
          /\ Tail(chat.all_context) = chat.context_chunks
          /\ chat.prompt[1].context_text[1].title = "Selected Text"
    /\ (req.kind = "context" /\ chat_response.status = 200)
       => /\ chat_response.sources # << >>
          /\ chat_response.sources[1] = PinnedSource
          /\ Tail(chat_response.sources) = Sources(chat.context_chunks)

\* an answer from the selected text and two retrieved chunks
C23_Witness ==
    /\ req.kind = "context" /\ chat_response.status = 200
    /\ Len(chat_response.sources) = 3
    /\ chat_response.sources[1].relevance_score = 100
    /\ chat_response.sources[2].relevance_score < 100

----------------------------------------------------------------------------
(* Claims about the shared store and RAGEngineerAgent.chunk_text *)

\* C28 (as stated): the admin routes and the chat routes operate on one store
\* under every configuration: a chat retrieval searches a store that holds
\* every chunk the re-index has stored, the in-memory fallback included.
C28_ChatSearchesIndexedStore ==
    (chat_seen.done /\ ~chat_seen.raised) => chat_seen.indexed \subseteq chat_seen.searched

\* C29 (as stated): RAGEngineerAgent.chunk_text terminates for chunk_size > 0
\* and overlap >= 0, overlap >= chunk_size included: the start position
\* strictly increases on every loop iteration.
C29_StartStrictlyIncreases ==
    [][(agent_chunk.pc = "loop" /\ agent_chunk'.chunk_id = agent_chunk.chunk_id + 1)
          => agent_chunk'.start > agent_chunk.start]_vars

====
